---- MODULE Spec2Model ----
(***************************************************************************)
(* A model of hep_utils: the geometry formulas (formulas.py), the layer    *)
(* constants (constants.py), the pyplot helpers (plotting/pyplot.py) and   *)
(* the RDataFrame converters (root.py).                                    *)
(*                                                                         *)
(* Every function of the package is one action: it draws the call's        *)
(* arguments from small sets, records them in args, and records in ret     *)
(* what the call returns or raises.  The only state the package keeps      *)
(* between calls lives in the default-argument dictionaries of the pyplot  *)
(* functions (Python evaluates a default once, when the def statement      *)
(* runs) and in matplotlib's rcParams.                                     *)
(*                                                                         *)
(* Numbers: numpy's floats are modelled as exact rationals <<n, d>> in     *)
(* lowest terms (d > 0).  Angles are integer multiples of pi / PiUnits.    *)
(* np.sqrt is kept symbolic: Sqrt(q) is the record [sqrt |-> q].           *)
(***************************************************************************)
EXTENDS Integers, Sequences, FiniteSets, TLC

VARIABLES
    op,                   \* name of the last function called
    args,                 \* its arguments
    ret,                  \* what it returned (or the exception it raised)
    hist_kwargs_default,  \* histplot.__defaults__: hist_kwargs = {}
    plot_kwargs_default,  \* plot_all_rings.__defaults__: plot_kwargs = {}
    bar_kwargs_default,   \* categorical_histplot.__defaults__: bar_kwargs = {}
    rc_color              \* plt.rcParams['axes.prop_cycle'] first colour

vars == <<op, args, ret, hist_kwargs_default, plot_kwargs_default,
          bar_kwargs_default, rc_color>>

defaults == <<hist_kwargs_default, plot_kwargs_default, bar_kwargs_default,
              rc_color>>

-----------------------------------------------------------------------------
(* Bounds of the model *)

\* np.pi is PiUnits grid steps: angles are multiples of pi / PiUnits
PiUnits == 2
\* rows of a 2-D array
MaxRows == 2
\* columns of a 2-D array
MaxCols == 2
\* length of the arrays handed to deltaR
MaxLen == 2
\* rows (events) of a rings table
MaxEvents == 2
\* length of the 1-d data handed to the histograms
MaxData == 2
\* largest nbins handed to histplot
MaxBins == 3
\* rows of the source behind a handle
MaxRdfRows == 3
\* largest vec_len handed to open_vector
MaxVecLen == 3

-----------------------------------------------------------------------------
(* Arithmetic *)

Abs(x) == IF x < 0 THEN -x ELSE x

RECURSIVE Gcd(_, _)
Gcd(a, b) == IF b = 0 THEN a ELSE Gcd(b, a % b)

\* the rational n / d (d # 0) in lowest terms with a positive denominator
Frac(n, d) ==
    LET g == Gcd(Abs(n), Abs(d))
        s == IF d < 0 THEN -1 ELSE 1
    IN  <<(s * n) \div g, (s * d) \div g>>

FInt(n) == <<n, 1>>
FAdd(p, q) == Frac(p[1] * q[2] + q[1] * p[2], p[2] * q[2])
FSub(p, q) == Frac(p[1] * q[2] - q[1] * p[2], p[2] * q[2])
FMul(p, q) == Frac(p[1] * q[1], p[2] * q[2])
FDivInt(p, n) == Frac(p[1], p[2] * n)
FAbs(p) == <<Abs(p[1]), p[2]>>
FLeq(p, q) == p[1] * q[2] <= q[1] * p[2]

RECURSIVE SumSeq(_)
SumSeq(s) == IF s = <<>> THEN 0 ELSE Head(s) + SumSeq(Tail(s))

RECURSIVE FSumSeq(_)
FSumSeq(s) == IF s = <<>> THEN FInt(0) ELSE FAdd(Head(s), FSumSeq(Tail(s)))

\* np.sqrt, symbolic: two square roots are equal iff their radicands are
Sqrt(q) == [sqrt |-> q]

\* Optional[...]: None is <<>>, a value v is <<v>>
None == <<>>
Some(v) == <<v>>

\* sequences over S of length lo..hi
SeqsOf(S, lo, hi) == UNION {[1..n -> S] : n \in lo..hi}

-----------------------------------------------------------------------------
(* formulas.py *)

\* np.pi, in grid steps
PI == PiUnits

Float(v) == [kind |-> "float", v |-> v]
Ndarray(v) == [kind |-> "ndarray", v |-> v]

\* (variant: the reflection starts at 2*pi instead of pi)
WrapNoReflect(dphi) == IF dphi >= 2 * PI THEN 2 * PI - dphi ELSE dphi
\* formulas.py:30-31, the scalar branch: dphi >= pi is reflected to 2*pi - dphi
WrapScalar(dphi) == IF dphi >= PI THEN 2 * PI - dphi ELSE dphi

\* (variant: the array branch leaves dphi as it is)
WrapArrayNoMask(dphi) == dphi
\* formulas.py:29, the array branch: the masked assignment
\*   dphi[dphi >= np.pi] = 2*np.pi - dphi[dphi >= np.pi]
WrapArray(dphi) ==
    [i \in DOMAIN dphi |-> IF dphi[i] >= PI THEN 2 * PI - dphi[i] ELSE dphi[i]]

\* formulas.py:6-32.  The intermediate dphi is returned beside the value so
\* that properties of the wrapped difference can be stated.
deltaR(eta1, phi1, eta2, phi2) ==
    IF eta1.kind = "ndarray"
    THEN LET deta == [i \in DOMAIN eta1.v |-> Abs(eta1.v[i] - eta2.v[i])]
             dphi0 == [i \in DOMAIN phi1.v |-> Abs(phi1.v[i] - phi2.v[i])]
             dphi == WrapArray(dphi0)
         IN  [kind |-> "ndarray",
              dphi |-> dphi,
              value |-> [i \in DOMAIN deta |->
                            Sqrt(FInt(deta[i] * deta[i] + dphi[i] * dphi[i]))]]
    ELSE LET deta == Abs(eta1.v - eta2.v)
             dphi0 == Abs(phi1.v - phi2.v)
             dphi == WrapScalar(dphi0)
         IN  [kind |-> "float",
              dphi |-> dphi,
              value |-> Sqrt(FInt(deta * deta + dphi * dphi))]

\* formulas.py:49  norms = np.abs(data.sum(axis=1))
RowNorms(data) == [r \in DOMAIN data |-> Abs(SumSeq(data[r]))]

\* (variant: zero norms are kept)
FillZeroNormsOff(norms) == norms
\* formulas.py:50  norms[norms == 0] = 1
FillZeroNorms(norms) ==
    [r \in DOMAIN norms |-> IF norms[r] = 0 THEN 1 ELSE norms[r]]

\* data / norms[:, None]; a zero divisor gives numpy's nan (0/0) or +-inf,
\* written <<0, 0>>, <<1, 0>>, <<-1, 0>>
Divide(x, n) ==
    IF n = 0 THEN <<(IF x < 0 THEN -1 ELSE IF x > 0 THEN 1 ELSE 0), 0>>
    ELSE Frac(x, n)

\* formulas.py:35-51.  result is the returned array; data is what the
\* caller's array holds when the call returns (the division allocates).
norm1(data) ==
    LET norms == FillZeroNorms(RowNorms(data))
    IN  [result |-> [r \in DOMAIN data |->
                        [c \in DOMAIN data[r] |-> Divide(data[r][c], norms[r])]],
         data |-> [r \in DOMAIN data |->
                        [c \in DOMAIN data[r] |-> FInt(data[r][c])]]]

-----------------------------------------------------------------------------
(* constants.py *)

N_RINGS == 100

\* list(range(lo, hi))
Range(lo, hi) == [i \in 1..(hi - lo) |-> lo + i - 1]

\* the OrderedDict, as the sequence of its items in insertion order
RINGS_LAYERS ==
    << [name |-> "PS",   idxs |-> Range(0, 8)],
       [name |-> "EM1",  idxs |-> Range(8, 72)],
       [name |-> "EM2",  idxs |-> Range(72, 80)],
       [name |-> "EM3",  idxs |-> Range(80, 88)],
       [name |-> "HAD1", idxs |-> Range(88, 92)],
       [name |-> "HAD2", idxs |-> Range(92, 96)],
       [name |-> "HAD3", idxs |-> Range(96, 100)] >>

-----------------------------------------------------------------------------
(* plotting/pyplot.py *)

\* dictionaries are functions from keys to values
EmptyDict == << >>
\* d with d[k] = v
DictSet(d, k, v) == [x \in (DOMAIN d) \cup {k} |-> IF x = k THEN v ELSE d[x]]
\* d.get(k) is None
DictLacks(d, k) == k \notin DOMAIN d

DataFrame(v) == [kind |-> "DataFrame", v |-> v]

\* an exception leaves the call without a return value
Raise(exc) == [raised |-> Some(exc)]

\* ax = plt.gca() when ax is None
ResolveAx(ax) == IF ax = None THEN "gca" ELSE ax[1]

\* pyplot.py:99-104 and 156-161: one axvline and one text per layer, in the
\* order of RINGS_LAYERS.items().  The text's height follows the axes' current
\* y limit, which matplotlib owns, and is left out.
RingsLabels ==
    [k \in 1..(2 * Len(RINGS_LAYERS)) |->
        LET layer == RINGS_LAYERS[(k + 1) \div 2]
        IN  IF k % 2 = 1
            THEN [f |-> "axvline", x |-> FInt(layer.idxs[1])]
            ELSE [f |-> "text", x |-> Frac(2 * layer.idxs[1] + 1, 2),
                  s |-> layer.name]]

\* a 2-D array of integers as an array of rationals
AsFloats(a) == [r \in DOMAIN a |-> [c \in DOMAIN a[r] |-> FInt(a[r][c])]]

Column(rings, c) == [r \in DOMAIN rings |-> rings[r][c]]

\* rings.mean(axis=0)
ColumnMean(rings) ==
    [c \in DOMAIN rings[1] |-> FDivInt(FSumSeq(Column(rings, c)), Len(rings))]

\* (variant: the mean is not subtracted)
ColumnStdUncentred(rings) ==
    [c \in DOMAIN rings[1] |->
        Sqrt(FDivInt(FSumSeq([r \in DOMAIN rings |->
                                 FMul(rings[r][c], rings[r][c])]),
                     Len(rings)))]
\* rings.std(axis=0): sqrt(mean(abs(x - x.mean())**2)), ddof = 0
ColumnStd(rings) ==
    LET mean == ColumnMean(rings)
    IN  [c \in DOMAIN rings[1] |->
            Sqrt(FDivInt(FSumSeq([r \in DOMAIN rings |->
                                     FMul(FSub(rings[r][c], mean[c]),
                                          FSub(rings[r][c], mean[c]))]),
                         Len(rings)))]

\* pyplot.py:48-111.  rings is bound only under isinstance(df, pd.DataFrame)
\* (lines 86-87); the first use of the unbound local raises.
plot_rings_profile(df, ax, normalize, error_margin, label, add_rings_labels) ==
    IF df.kind # "DataFrame"
    THEN Raise("UnboundLocalError")
    ELSE LET rings0 == AsFloats(df.v)
             rings == IF normalize THEN norm1(df.v).result ELSE rings0
             mean == ColumnMean(rings)
             std == ColumnStd(rings)
         IN  [raised |-> None,
              ax |-> ResolveAx(ax),
              mean |-> mean,
              std |-> std,
              calls |->
                  << [f |-> "plot", n |-> Len(mean), y |-> mean,
                      label |-> label] >>
                  \o (IF error_margin
                      THEN << [f |-> "fill_between", n |-> Len(mean),
                               y |-> mean, yerr |-> std] >>
                      ELSE << >>)
                  \o (IF add_rings_labels THEN RingsLabels ELSE << >>)
                  \o << [f |-> "axhline", y |-> FInt(0)],
                        [f |-> "legend"],
                        [f |-> "set_title", s |-> "Rings mean profile"],
                        [f |-> "set_xlim", lo |-> 0, hi |-> Len(mean)],
                        [f |-> "set_xlabel", s |-> "Ring index"],
                        [f |-> "set_ylabel", s |-> "Normalized energy"] >>]

\* pyplot.py:149-150: the colour is written into the dictionary the call
\* received, which is the function's own default when none was passed
SetColor(plot_kwargs, cycle0) ==
    IF DictLacks(plot_kwargs, "color")
    THEN DictSet(plot_kwargs, "color", cycle0)
    ELSE plot_kwargs

\* pyplot.py:114-170.  kwargs is the dictionary the body works on (the
\* default one when plot_kwargs is not passed); kwargs_after is what that
\* dictionary holds when the call ends, by return or by exception.
plot_all_rings(df, ax, normalize, kwargs, add_rings_labels, cycle0) ==
    IF df.kind # "DataFrame"
    THEN \* line 145 raises before line 150 when normalize, line 152 after it
         [out |-> Raise("UnboundLocalError"),
          kwargs_after |-> IF normalize THEN kwargs ELSE SetColor(kwargs, cycle0)]
    ELSE LET rings == IF normalize THEN norm1(df.v).result ELSE AsFloats(df.v)
             kw == SetColor(kwargs, cycle0)
             n_rings == Len(rings[1])
         IN  [out |->
                [raised |-> None,
                 ax |-> ResolveAx(ax),
                 calls |->
                    [i \in DOMAIN rings |->
                        [f |-> "plot", n |-> n_rings, y |-> rings[i],
                         kwargs |-> kw]]
                    \o (IF add_rings_labels THEN RingsLabels ELSE << >>)
                    \o << [f |-> "axhline", y |-> FInt(0)],
                          [f |-> "set_title", s |-> "All Rings"],
                          [f |-> "set_xlim", lo |-> 0, hi |-> n_rings],
                          [f |-> "set_xlabel", s |-> "Ring index"],
                          [f |-> "set_ylabel",
                           s |-> IF normalize THEN "Normalized energy"
                                 ELSE "Energy"] >>],
              kwargs_after |-> kw]

RECURSIVE MaxSeq(_)
MaxSeq(s) ==
    IF Len(s) = 1 THEN s[1]
    ELSE LET m == MaxSeq(Tail(s)) IN IF s[1] >= m THEN s[1] ELSE m

RECURSIVE MinSeq(_)
MinSeq(s) ==
    IF Len(s) = 1 THEN s[1]
    ELSE LET m == MinSeq(Tail(s)) IN IF s[1] <= m THEN s[1] ELSE m

\* np.linspace(lo, hi, num), num >= 2: num points, the ends included
Linspace(lo, hi, num) ==
    [i \in 1..num |-> Frac(lo * (num - 1) + (i - 1) * (hi - lo), num - 1)]

\* np.histogram refuses bin edges that decrease
Monotonic(edges) ==
    \A i \in 1..(Len(edges) - 1) : FLeq(edges[i], edges[i + 1])

\* data.mean() and data.std() of a 1-d array; nan, written <<0, 0>>, when empty
Mean1(data) ==
    IF data = << >> THEN <<0, 0>> ELSE Frac(SumSeq(data), Len(data))
Std1(data) ==
    IF data = << >> THEN Sqrt(<<0, 0>>)
    ELSE LET m == Mean1(data)
         IN  Sqrt(FDivInt(FSumSeq([i \in DOMAIN data |->
                                      FMul(FSub(FInt(data[i]), m),
                                           FSub(FInt(data[i]), m))]),
                          Len(data)))

\* pyplot.py:243-248: one empty plot per metric, carrying its label (the
\* value is kept as it is instead of the text ':.2f' makes of it), then the
\* legend
MetricsLegend(keys, metrics_dict) ==
    [i \in DOMAIN keys |->
        [f |-> "plot", label |-> keys[i], value |-> metrics_dict[keys[i]]]]
    \o << [f |-> "legend"] >>

\* pyplot.py:173-251.  kwargs is the dictionary the body works on (the
\* default one when hist_kwargs is not passed); kwargs_after is what that
\* dictionary holds when the call ends, by return or by exception.
\* legend_kwargs and ax_set are left at their defaults, which no line writes.
histplot(data, nbins, bin_max, bin_min, ax, metrics, kwargs) ==
    LET max_ == IF bin_max = None THEN MaxSeq(data) ELSE bin_max[1]
        data1 == IF bin_max = None THEN data
                 ELSE SelectSeq(data, LAMBDA x : x <= max_)
    IN  IF bin_min = None /\ data1 = << >>
        THEN \* line 228: min() of an empty array
             [out |-> Raise("ValueError"), kwargs_after |-> kwargs]
        ELSE
        LET min_ == IF bin_min = None THEN MinSeq(data1) ELSE bin_min[1]
            data2 == IF bin_min = None THEN data1
                     ELSE SelectSeq(data1, LAMBDA x : x >= min_)
            kw == IF DictLacks(kwargs, "bins")
                  THEN DictSet(kwargs, "bins", Linspace(min_, max_, nbins))
                  ELSE kwargs
            metrics_dict == [Samples |-> Len(data2), Mean |-> Mean1(data2),
                             Std |-> Std1(data2), Min |-> min_, Max |-> max_]
        IN  IF ~Monotonic(kw.bins)
            THEN \* line 233: ax.hist, after line 232 has written the bins
                 [out |-> Raise("ValueError"), kwargs_after |-> kw]
            ELSE [out |->
                    [raised |-> None,
                     ax |-> ResolveAx(ax),
                     metrics |-> IF metrics THEN metrics_dict ELSE EmptyDict,
                     calls |->
                        << [f |-> "hist", x |-> data2, kwargs |-> kw],
                           [f |-> "set", kwargs |-> EmptyDict] >>
                        \o (IF metrics
                            THEN MetricsLegend(
                                   <<"Samples", "Mean", "Std", "Min", "Max">>,
                                   metrics_dict)
                            ELSE << >>)],
                  kwargs_after |-> kw]

\* the elements of a set of integers in ascending order
RECURSIVE SortedSeq(_)
SortedSeq(S) ==
    IF S = {} THEN << >>
    ELSE LET m == CHOOSE x \in S : \A y \in S : x <= y
         IN  <<m>> \o SortedSeq(S \ {m})

\* pyplot.py:254-313.  kwargs and kwargs_after as for histplot.
categorical_histplot(data, ax, metrics, percentage, kwargs) ==
    LET categories == SortedSeq({data[i] : i \in DOMAIN data})
        counts == [k \in DOMAIN categories |->
                      Cardinality({i \in DOMAIN data : data[i] = categories[k]})]
        n_samples == SumSeq(counts)
        heights == [k \in DOMAIN counts |->
                       IF percentage THEN Frac(100 * counts[k], n_samples)
                       ELSE FInt(counts[k])]
        kw == DictSet(kwargs, "align", "center")
        metrics_dict == [Samples |-> n_samples]
    IN  [out |->
            [raised |-> None,
             ax |-> ResolveAx(ax),
             metrics |-> IF metrics THEN metrics_dict ELSE EmptyDict,
             calls |->
                << [f |-> "bar", x |-> categories, height |-> heights,
                    kwargs |-> kw],
                   [f |-> "set", kwargs |-> EmptyDict] >>
                \o (IF metrics
                    THEN MetricsLegend(<<"Samples">>, metrics_dict)
                    ELSE << >>)],
         kwargs_after |-> kw]

-----------------------------------------------------------------------------
(* root.py *)

\* a column name as the handle gives it (cppyy's std::string) and as Python
\* holds it (str); str(key) converts the first into the second
CppString(s) == [type |-> "std::string", s |-> s]
PyStr(s) == [type |-> "str", s |-> s]
Str(key) == PyStr(key.s)

\* an ordered dict as the sequence of its <<key, value>> items
DictKeys(d) == [i \in DOMAIN d |-> d[i][1]]
DictHas(d, key) == \E i \in DOMAIN d : d[i][1] = key
DictGet(d, key) == d[CHOOSE i \in DOMAIN d : d[i][1] = key][2]
\* d.pop(key): the dict without the item
DictPop(d, key) == SelectSeq(d, LAMBDA item : item[1] # key)
\* d[key] = value: in place when the key is there, appended otherwise
DictPut(d, key, value) ==
    IF DictHas(d, key)
    THEN [i \in DOMAIN d |-> IF d[i][1] = key THEN <<key, value>> ELSE d[i]]
    ELSE Append(d, <<key, value>>)

\* rdf.GetColumnNames(): the columns of the source, then the defined ones
GetColumnNames(rdf) ==
    [i \in DOMAIN rdf.cols |-> CppString(rdf.cols[i])]
    \o [i \in DOMAIN rdf.defines |-> CppString(rdf.defines[i].name)]

\* rdf.AsNumpy(columns): every requested column, whole, under its name
AsNumpy(rdf, columns) ==
    [i \in DOMAIN columns |-> <<CppString(columns[i]), rdf.data[columns[i]]>>]

\* rdf.Define(name, expr): a new handle with one more defined column
Define(rdf, name, expr) ==
    [rdf EXCEPT !.defines = Append(@, [name |-> name, expr |-> expr])]

\* root.py:20
get_column_names(rdf) ==
    LET names == GetColumnNames(rdf)
    IN  [i \in DOMAIN names |-> Str(names[i])]

\* (variant: column[:nrows] whatever the sign of nrows)
SliceRowsUnguarded(column, nrows) ==
    IF nrows < 0
    THEN SubSeq(column, 1, IF Len(column) + nrows < 0 THEN 0
                           ELSE Len(column) + nrows)
    ELSE SubSeq(column, 1, IF nrows < Len(column) THEN nrows ELSE Len(column))
\* root.py:54-57: the column as it is when nrows < 0, column[:nrows] otherwise
SliceRows(column, nrows) ==
    IF nrows < 0 THEN column
    ELSE SubSeq(column, 1, IF nrows < Len(column) THEN nrows ELSE Len(column))

\* root.py:50-57: the loop over the keys listed before it starts
RECURSIVE ConvertKeys(_, _, _)
ConvertKeys(pdf_dict, keys, nrows) ==
    IF keys = << >> THEN pdf_dict
    ELSE LET key == Head(keys)
             column == DictGet(pdf_dict, key)
         IN  ConvertKeys(DictPut(DictPop(pdf_dict, key), Str(key),
                                 SliceRows(column, nrows)),
                         Tail(keys), nrows)

\* root.py:23-58.  pd.DataFrame.from_dict keeps the items in their order.
rdf_to_pandas(rdf, columns, nrows) ==
    LET pdf_dict == IF columns = None
                    THEN AsNumpy(rdf, rdf.cols)
                    ELSE AsNumpy(rdf, columns[1])
        keys == DictKeys(pdf_dict)
    IN  [kind |-> "DataFrame", items |-> ConvertKeys(pdf_dict, keys, nrows)]

\* (variant: the indices start at 1)
RangeFromOne(n) == [k \in 1..n |-> k]
\* root.py:84  range(vec_len)
RangeFromZero(n) == [k \in 1..n |-> k - 1]

\* root.py:83-88: the loop, from index k of range(vec_len) on
RECURSIVE OpenFrom(_, _, _, _, _)
OpenFrom(column, indices, k, column_names, rdf) ==
    IF k > Len(indices) THEN [names |-> column_names, rdf |-> rdf]
    ELSE LET i == indices[k]
             new_name == column \o "_" \o ToString(i)
         IN  OpenFrom(column, indices, k + 1, Append(column_names, new_name),
                      Define(rdf, new_name,
                             column \o "[" \o ToString(i) \o "]"))

\* root.py:61-88
open_vector(column, vec_len, rdf) ==
    OpenFrom(column, RangeFromZero(vec_len), 1, << >>, rdf)

-----------------------------------------------------------------------------
(* Inputs *)

\* entries of the 2-D arrays: both signs, zero, and rows that cancel
ArrayValues == {-1, 0, 1, 2}

\* 2-D arrays of shape (1..MaxRows, 1..MaxCols) over a set of values
ArraysOver(V) ==
    UNION {[1..r -> [1..c -> V]] : <<r, c>> \in (1..MaxRows) \X (1..MaxCols)}

\* ring vectors the tables handed to the plots are built from: equal rows,
\* mixed signs, entries that cancel, an all-zero vector
RingVectors ==
    { <<1, 2>>, <<2, 2>>, <<1, -1>>, <<2, -1>>, <<0, 0>>,
      <<1, 0, 3>>, <<-1, -1, 3>> }

\* tables of 1..MaxEvents ring vectors of one length
RingsTables ==
    {t \in SeqsOf(RingVectors, 1, MaxEvents) :
        \A i \in DOMAIN t : Len(t[i]) = Len(t[1])}

\* ax: None (the current axes) or an axes of the caller
AxValues == {None, Some("ax1")}

\* the values of the 1-d data handed to the histograms
HistValues == 0..3

\* 1-d data of 1..MaxData values
HistData == SeqsOf(HistValues, 1, MaxData)

\* nbins
BinCounts == 2..MaxBins

\* colours of the property cycle
Colors == {"C0", "C1"}

\* tables for the rings plot beside the histograms
FewRingsTables == { << <<1, 2>> >>, << <<1, -1>>, <<2, 2>> >> }

\* the columns of a source: scalars x and y, vectors v and rings of
\* MaxVecLen elements; row r (counted from 0) holds r, 10 + r and
\* <<r, r + 1, ...>>
ColumnOf(name, nrows) ==
    [k \in 1..nrows |->
        IF name = "x" THEN k - 1
        ELSE IF name = "y" THEN 10 + k - 1
        ELSE [j \in 1..MaxVecLen |-> k + j - 2]]

ColumnLists == { <<"x">>, <<"x", "y">>, <<"v", "x">>, <<"y", "rings", "x">> }

\* handles: a source of 0..MaxRdfRows rows, with or without a column defined
\* earlier
Handles ==
    { [cols |-> cols,
       data |-> [c \in {cols[i] : i \in DOMAIN cols} |-> ColumnOf(c, n)],
       defines |-> defs] :
        cols \in ColumnLists, n \in 0..MaxRdfRows,
        defs \in { << >>, << [name |-> "w_0", expr |-> "w[0]"] >> } }

\* the vector columns of a handle
VectorColumns(rdf) ==
    {rdf.cols[i] : i \in DOMAIN rdf.cols} \cap {"v", "rings"}

\* the columns argument: None, or one or two columns of the handle
ColumnChoices(rdf) ==
    {None}
    \cup {Some(<<rdf.cols[i]>>) : i \in DOMAIN rdf.cols}
    \cup {Some(<<rdf.cols[i], rdf.cols[j]>>) :
            <<i, j>> \in {p \in (DOMAIN rdf.cols) \X (DOMAIN rdf.cols) :
                            p[1] # p[2]}}

EtaValues == {0, 1}
\* azimuths from -2*pi to 2*pi, so that differences reach beyond 2*pi
PhiValues == (-2 * PI)..(2 * PI)

\* the element quadruples the array inputs of deltaR are built from
ArrayElems == {0, 1} \X {0, -PI} \X {0} \X PhiValues

-----------------------------------------------------------------------------
(* State *)

NoArgs == [none |-> TRUE]

Init ==
    /\ op = "none"
    /\ args = NoArgs
    /\ ret = NoArgs
    /\ hist_kwargs_default = EmptyDict
    /\ plot_kwargs_default = EmptyDict
    /\ bar_kwargs_default = EmptyDict
    /\ rc_color = "C0"

\* no call is in progress and no result is pending
Idle == op = "none"

\* the caller takes the result of the last call; the defaults stay
Return ==
    /\ op # "none"
    /\ op' = "none"
    /\ args' = NoArgs
    /\ ret' = NoArgs
    /\ UNCHANGED defaults

\* deltaR(eta1, phi1, eta2, phi2) on scalars
deltaR_scalar_call ==
    /\ Idle
    /\ \E eta1 \in EtaValues, phi1 \in PhiValues,
       eta2 \in EtaValues, phi2 \in PhiValues :
        /\ op' = "deltaR"
        /\ args' = [eta1 |-> Float(eta1), phi1 |-> Float(phi1),
                    eta2 |-> Float(eta2), phi2 |-> Float(phi2)]
        /\ ret' = deltaR(Float(eta1), Float(phi1), Float(eta2), Float(phi2))
        /\ UNCHANGED defaults

\* deltaR(eta1, phi1, eta2, phi2) on arrays of equal shape
deltaR_array_call ==
    /\ Idle
    /\ \E es \in SeqsOf(ArrayElems, 1, MaxLen) :
        LET col(k) == Ndarray([i \in DOMAIN es |-> es[i][k]])
        IN  /\ op' = "deltaR"
            /\ args' = [eta1 |-> col(1), phi1 |-> col(2),
                        eta2 |-> col(3), phi2 |-> col(4)]
            /\ ret' = deltaR(col(1), col(2), col(3), col(4))
            /\ UNCHANGED defaults

\* norm1(data)
norm1_call ==
    /\ Idle
    /\ \E data \in ArraysOver(ArrayValues) :
        /\ op' = "norm1"
        /\ args' = [data |-> data]
        /\ ret' = norm1(data)
        /\ UNCHANGED defaults

\* plot_rings_profile(df, ax, normalize, error_margin, label, add_rings_labels)
plot_rings_profile_call ==
    /\ Idle
    /\ \E v \in RingsTables, kind \in {"DataFrame", "ndarray"},
       ax \in AxValues, normalize \in BOOLEAN, error_margin \in BOOLEAN,
       label \in {"", "sig"}, add_rings_labels \in BOOLEAN :
        LET df == [kind |-> kind, v |-> v]
        IN  /\ op' = "plot_rings_profile"
            /\ args' = [df |-> df, ax |-> ax, normalize |-> normalize,
                        error_margin |-> error_margin, label |-> label,
                        add_rings_labels |-> add_rings_labels]
            /\ ret' = plot_rings_profile(df, ax, normalize, error_margin,
                                         label, add_rings_labels)
            /\ UNCHANGED defaults

\* plot_all_rings(df, ax, normalize, plot_kwargs, add_rings_labels), on the
\* tables of Tables; plot_kwargs is left out (None) or passed
plot_all_rings_call(Tables) ==
    /\ Idle
    /\ \E v \in Tables, kind \in {"DataFrame", "ndarray"},
       ax \in AxValues, normalize \in BOOLEAN,
       plot_kwargs \in {None, Some(EmptyDict), Some([color |-> "red"])},
       add_rings_labels \in BOOLEAN :
        LET df == [kind |-> kind, v |-> v]
            kwargs == IF plot_kwargs = None THEN plot_kwargs_default
                      ELSE plot_kwargs[1]
            r == plot_all_rings(df, ax, normalize, kwargs, add_rings_labels,
                                rc_color)
        IN  /\ op' = "plot_all_rings"
            /\ args' = [df |-> df, ax |-> ax, normalize |-> normalize,
                        plot_kwargs |-> plot_kwargs,
                        add_rings_labels |-> add_rings_labels]
            /\ ret' = r.out
            /\ plot_kwargs_default' =
                   IF plot_kwargs = None THEN r.kwargs_after
                   ELSE plot_kwargs_default
            /\ UNCHANGED <<hist_kwargs_default, bar_kwargs_default, rc_color>>

NextProfile ==
    \/ plot_rings_profile_call
    \/ plot_all_rings_call(RingsTables)
    \/ Return

SpecProfile == Init /\ [][NextProfile]_vars

\* histplot(data, nbins, bin_max, bin_min, ax, metrics, hist_kwargs=...);
\* hist_kwargs is left out (None) or passed, with or without 'bins'
histplot_call ==
    /\ Idle
    /\ \E data \in HistData, nbins \in BinCounts,
          bin_max \in {None, Some(2)}, bin_min \in {None, Some(1)},
          ax \in AxValues, metrics \in BOOLEAN,
          hist_kwargs \in {None, Some(EmptyDict),
                           Some([bins |-> <<FInt(0), FInt(2), FInt(4)>>])} :
        LET kwargs == IF hist_kwargs = None THEN hist_kwargs_default
                      ELSE hist_kwargs[1]
            r == histplot(data, nbins, bin_max, bin_min, ax, metrics, kwargs)
        IN  /\ op' = "histplot"
            /\ args' = [data |-> data, nbins |-> nbins, bin_max |-> bin_max,
                        bin_min |-> bin_min, ax |-> ax, metrics |-> metrics,
                        hist_kwargs |-> hist_kwargs]
            /\ ret' = r.out
            /\ hist_kwargs_default' =
                   IF hist_kwargs = None THEN r.kwargs_after
                   ELSE hist_kwargs_default
            /\ UNCHANGED <<plot_kwargs_default, bar_kwargs_default, rc_color>>

\* categorical_histplot(data, ax, metrics, percentage, bar_kwargs=...)
categorical_histplot_call ==
    /\ Idle
    /\ \E data \in HistData, ax \in AxValues, metrics \in BOOLEAN,
          percentage \in BOOLEAN,
          bar_kwargs \in {None, Some(EmptyDict), Some([color |-> "red"])} :
        LET kwargs == IF bar_kwargs = None THEN bar_kwargs_default
                      ELSE bar_kwargs[1]
            r == categorical_histplot(data, ax, metrics, percentage, kwargs)
        IN  /\ op' = "categorical_histplot"
            /\ args' = [data |-> data, ax |-> ax, metrics |-> metrics,
                        percentage |-> percentage, bar_kwargs |-> bar_kwargs]
            /\ ret' = r.out
            /\ bar_kwargs_default' =
                   IF bar_kwargs = None THEN r.kwargs_after
                   ELSE bar_kwargs_default
            /\ UNCHANGED <<hist_kwargs_default, plot_kwargs_default, rc_color>>

\* the program sets another property cycle in plt.rcParams between two calls
set_color_cycle ==
    /\ Idle
    /\ \E c \in Colors \ {rc_color} : rc_color' = c
    /\ UNCHANGED <<op, args, ret, hist_kwargs_default, plot_kwargs_default,
                   bar_kwargs_default>>

NextPlot ==
    \/ histplot_call
    \/ categorical_histplot_call
    \/ plot_all_rings_call(FewRingsTables)
    \/ set_color_cycle
    \/ Return

SpecPlot == Init /\ [][NextPlot]_vars

\* get_column_names(rdf)
get_column_names_call ==
    /\ Idle
    /\ \E rdf \in Handles :
        /\ op' = "get_column_names"
        /\ args' = [rdf |-> rdf]
        /\ ret' = [names |-> get_column_names(rdf)]
        /\ UNCHANGED defaults

\* rdf_to_pandas(rdf, columns, nrows); nrows is -1 when left out
rdf_to_pandas_call ==
    /\ Idle
    /\ \E rdf \in Handles, nrows \in (-2)..(MaxRdfRows + 1) :
        \E columns \in ColumnChoices(rdf) :
            /\ op' = "rdf_to_pandas"
            /\ args' = [rdf |-> rdf, columns |-> columns, nrows |-> nrows]
            /\ ret' = rdf_to_pandas(rdf, columns, nrows)
            /\ UNCHANGED defaults

\* open_vector(column, vec_len, rdf)
open_vector_call ==
    /\ Idle
    /\ \E rdf \in Handles, vec_len \in 0..MaxVecLen :
        \E column \in VectorColumns(rdf) :
        /\ op' = "open_vector"
        /\ args' = [column |-> column, vec_len |-> vec_len, rdf |-> rdf]
        /\ ret' = open_vector(column, vec_len, rdf)
        /\ UNCHANGED defaults

NextRoot ==
    \/ get_column_names_call
    \/ rdf_to_pandas_call
    \/ open_vector_call
    \/ Return

SpecRoot == Init /\ [][NextRoot]_vars

NextFormulas ==
    \/ deltaR_scalar_call
    \/ deltaR_array_call
    \/ norm1_call
    \/ Return

SpecFormulas == Init /\ [][NextFormulas]_vars

\* the whole package
Next == NextFormulas \/ NextProfile \/ NextPlot \/ NextRoot

Spec == Init /\ [][Next]_vars

-----------------------------------------------------------------------------
(* Properties of formulas.py, checked under SpecFormulas *)

\* sum(abs(row)) of a row of rationals
FSumAbs(row) == FSumSeq([c \in DOMAIN row |-> FAbs(row[c])])

\* C3: every row of norm1's input whose entries do not sum to 0 comes out
\* with sum of absolute values equal to 1, whatever the signs of its entries.
C3_RowsHaveUnitL1Norm ==
    op = "norm1" =>
        \A r \in DOMAIN args.data :
            SumSeq(args.data[r]) # 0 => FSumAbs(ret.result[r]) = FInt(1)

DphiWrapped(phi1, phi2, dphi) ==
    /\ 0 <= dphi
    /\ dphi <= PI
    /\ dphi = IF Abs(phi1 - phi2) < PI THEN Abs(phi1 - phi2)
              ELSE 2 * PI - Abs(phi1 - phi2)

\* C5 as stated: for all finite phi1 and phi2 the difference deltaR squares
\* lies in [0, pi], and separations d and 2*pi - d give the same deltaR.
C5_AllFinitePhiWrapped ==
    (op = "deltaR" /\ ret.kind = "float") =>
        /\ DphiWrapped(args.phi1.v, args.phi2.v, ret.dphi)
        /\ LET d == args.phi2.v - args.phi1.v
           IN  ret.value = deltaR(args.eta1, Float(0), args.eta2,
                                  Float(2 * PI - d)).value

\* C5 amended: the same, for phi1 and phi2 with |phi1 - phi2| <= 2*pi.
C5_PhiWrappedWithinTwoPi ==
    (op = "deltaR" /\ ret.kind = "float"
        /\ Abs(args.phi1.v - args.phi2.v) <= 2 * PI) =>
        /\ DphiWrapped(args.phi1.v, args.phi2.v, ret.dphi)
        /\ LET d == Abs(args.phi2.v - args.phi1.v)
           IN  ret.value = deltaR(args.eta1, Float(0), args.eta2,
                                  Float(2 * PI - d)).value

\* C5 witness: a scalar deltaR call whose difference lies strictly between pi
\* and 2*pi, so that it has been reflected.
C5_Witness ==
    /\ op = "deltaR"
    /\ ret.kind = "float"
    /\ Abs(args.phi1.v - args.phi2.v) > PI
    /\ Abs(args.phi1.v - args.phi2.v) < 2 * PI
    /\ ret.dphi = 2 * PI - Abs(args.phi1.v - args.phi2.v)

\* C10: on arrays of equal shape deltaR returns an array of that shape whose
\* element i is the scalar deltaR of the i-th elements of the inputs.
C10_ArrayPathIsElementwiseScalar ==
    (op = "deltaR" /\ args.eta1.kind = "ndarray") =>
        /\ ret.kind = "ndarray"
        /\ DOMAIN ret.value = DOMAIN args.eta1.v
        /\ \A i \in DOMAIN args.eta1.v :
            ret.value[i] = deltaR(Float(args.eta1.v[i]), Float(args.phi1.v[i]),
                                  Float(args.eta2.v[i]), Float(args.phi2.v[i])).value

\* C10 witness: an array call with one element whose difference is wrapped
\* and one whose difference is not.
C10_Witness ==
    /\ op = "deltaR"
    /\ args.eta1.kind = "ndarray"
    /\ \E i, j \in DOMAIN args.phi1.v :
        /\ Abs(args.phi1.v[i] - args.phi2.v[i]) > PI
        /\ Abs(args.phi1.v[j] - args.phi2.v[j]) < PI
        /\ ret.dphi[i] # Abs(args.phi1.v[i] - args.phi2.v[i])
        /\ ret.dphi[j] = Abs(args.phi1.v[j] - args.phi2.v[j])

-----------------------------------------------------------------------------
(* Properties of the rings plots, checked under SpecProfile *)

\* C2: plot_rings_profile and plot_all_rings accept a plain 2-D array: the
\* call completes without error, and plot_rings_profile returns the mean and
\* std it returns for a DataFrame holding the same values.
C2_ArrayInputAccepted ==
    (op \in {"plot_rings_profile", "plot_all_rings"}
        /\ args.df.kind = "ndarray") =>
        /\ ret.raised = None
        /\ op = "plot_rings_profile" =>
            LET asTable == plot_rings_profile(DataFrame(args.df.v), args.ax,
                               args.normalize, args.error_margin, args.label,
                               args.add_rings_labels)
            IN  ret.mean = asTable.mean /\ ret.std = asTable.std

\* the rows of a table are all equal
IdenticalRows(t) == \A i \in DOMAIN t : t[i] = t[1]

-----------------------------------------------------------------------------
(* Properties of the histograms and of the default dictionaries, checked
   under SpecPlot *)

\* the bounds a histplot call works with: the argument, or the data's own
\* maximum / minimum when it is None
EffMax == IF args.bin_max = None THEN MaxSeq(args.data) ELSE args.bin_max[1]
EffMin == IF args.bin_min = None THEN MinSeq(args.data) ELSE args.bin_min[1]

\* the call passed no dictionary, or one without the key
NotPassed(kwargs, key) == kwargs = None \/ DictLacks(kwargs[1], key)

\* C1: no state is carried from one call to the next: the default
\* dictionaries are empty before and after every call, and the options a call
\* uses follow from its own arguments and data (histplot's bin edges from its
\* nbins, bin_min and bin_max when no 'bins' is passed, plot_all_rings' colour
\* from the colour passed or else the current property cycle,
\* categorical_histplot's bar options from the ones passed).
C1_NoStateCarriedAcrossCalls ==
    /\ hist_kwargs_default = EmptyDict
    /\ plot_kwargs_default = EmptyDict
    /\ bar_kwargs_default = EmptyDict
    /\ (op = "histplot" /\ ret.raised = None
            /\ NotPassed(args.hist_kwargs, "bins")) =>
        ret.calls[1].kwargs.bins = Linspace(EffMin, EffMax, args.nbins)
    /\ (op = "plot_all_rings" /\ ret.raised = None
            /\ NotPassed(args.plot_kwargs, "color")) =>
        ret.calls[1].kwargs.color = rc_color
    /\ (op = "categorical_histplot" /\ ret.raised = None) =>
        ret.calls[1].kwargs =
            DictSet(IF args.bar_kwargs = None THEN EmptyDict
                    ELSE args.bar_kwargs[1], "align", "center")

\* C8: histplot keeps exactly the data values inside [bin_min, bin_max] and,
\* when no 'bins' is passed, bins them into exactly nbins bins of equal width
\* from bin_min to bin_max.
C8_NbinsEqualWidthBins ==
    (op = "histplot" /\ ret.raised = None) =>
        /\ ret.calls[1].x =
               SelectSeq(args.data, LAMBDA x : EffMin <= x /\ x <= EffMax)
        /\ NotPassed(args.hist_kwargs, "bins") =>
            LET edges == ret.calls[1].kwargs.bins
            IN  /\ Len(edges) - 1 = args.nbins
                /\ edges[1] = FInt(EffMin)
                /\ edges[Len(edges)] = FInt(EffMax)
                /\ \A i \in 1..(Len(edges) - 1) :
                       FSub(edges[i + 1], edges[i]) = FSub(edges[2], edges[1])

-----------------------------------------------------------------------------
(* Properties of root.py, checked under SpecRoot *)

\* C6: rdf_to_pandas with a row limit n >= 0 on a handle of R rows returns
\* min(n, R) rows: every column is the first min(n, R) values of that column
\* of the handle; with no limit (nrows < 0, -1 when left out) every column is
\* whole; the columns are the requested ones (all when none is requested),
\* each under its name as a native str.
C6_FirstRowsOfEveryColumn ==
    op = "rdf_to_pandas" =>
        LET rdf == args.rdf
            wanted == IF args.columns = None THEN rdf.cols
                      ELSE args.columns[1]
            items == ret.items
        IN  /\ Len(items) = Len(wanted)
            /\ \A i \in DOMAIN wanted :
                LET full == rdf.data[wanted[i]]
                    R == Len(full)
                    n == args.nrows
                    kept == IF n < 0 THEN R ELSE IF n < R THEN n ELSE R
                IN  /\ items[i][1] = PyStr(wanted[i])
                    /\ Len(items[i][2]) = kept
                    /\ \A k \in 1..kept : items[i][2][k] = full[k]

\* C6 witness: a conversion of two columns that cut a longer source down to a
\* positive number of rows.
C6_Witness ==
    /\ op = "rdf_to_pandas"
    /\ args.nrows > 0
    /\ Len(ret.items) >= 2
    /\ \A i \in DOMAIN ret.items :
        /\ Len(ret.items[i][2]) = args.nrows
        /\ Len(args.rdf.data[ret.items[i][1].s]) > args.nrows

\* C7: open_vector with column c and length n issues n Define steps, for
\* i = 0..n-1 in ascending order, each defining c_i as c[i]; it returns the
\* names c_0, ..., c_(n-1) in that order and the handle the last Define gave
\* (the handle it was given, and no names, when n = 0).
C7_OneDefinePerIndexAscending ==
    op = "open_vector" =>
        LET c == args.column
            n == args.vec_len
            before == args.rdf.defines
            after == ret.rdf.defines
        IN  /\ Len(ret.names) = n
            /\ Len(after) = Len(before) + n
            /\ SubSeq(after, 1, Len(before)) = before
            /\ \A i \in 0..(n - 1) :
                /\ ret.names[i + 1] = c \o "_" \o ToString(i)
                /\ after[Len(before) + i + 1] =
                       [name |-> c \o "_" \o ToString(i),
                        expr |-> c \o "[" \o ToString(i) \o "]"]
            /\ ret.rdf.cols = args.rdf.cols
            /\ ret.rdf.data = args.rdf.data
            /\ n = 0 => (ret.rdf = args.rdf /\ ret.names = << >>)

\* C7 witness: a vector opened into three columns on a handle that already
\* had a defined column.
C7_Witness ==
    /\ op = "open_vector"
    /\ args.column = "v"
    /\ args.vec_len >= 3
    /\ args.rdf.defines # << >>
    /\ SubSeq(ret.names, 1, 3) = <<"v_0", "v_1", "v_2">>
    /\ Len(ret.rdf.defines) = Len(args.rdf.defines) + args.vec_len

-----------------------------------------------------------------------------
(* Properties of the layer mapping and its markers, checked under
   SpecProfile *)

\* the seven layers, in insertion order, with their ranges [lo, hi)
LayerRanges ==
    << <<"PS", 0, 8>>, <<"EM1", 8, 72>>, <<"EM2", 72, 80>>,
       <<"EM3", 80, 88>>, <<"HAD1", 88, 92>>, <<"HAD2", 92, 96>>,
       <<"HAD3", 96, 100>> >>

\* RINGS_LAYERS holds exactly these layers in this order, each the ascending
\* list of its range, and the ranges follow one another from 0 to N_RINGS
LayersPartitionRings ==
    /\ Len(RINGS_LAYERS) = Len(LayerRanges)
    /\ \A k \in DOMAIN LayerRanges :
        /\ RINGS_LAYERS[k].name = LayerRanges[k][1]
        /\ Len(RINGS_LAYERS[k].idxs) = LayerRanges[k][3] - LayerRanges[k][2]
        /\ \A i \in DOMAIN RINGS_LAYERS[k].idxs :
               RINGS_LAYERS[k].idxs[i] = LayerRanges[k][2] + i - 1
    /\ LayerRanges[1][2] = 0
    /\ LayerRanges[Len(LayerRanges)][3] = N_RINGS
    /\ \A k \in 1..(Len(LayerRanges) - 1) :
           LayerRanges[k][3] = LayerRanges[k + 1][2]
    /\ \A i \in 0..(N_RINGS - 1) :
           Cardinality({k \in DOMAIN RINGS_LAYERS :
                          \E j \in DOMAIN RINGS_LAYERS[k].idxs :
                              RINGS_LAYERS[k].idxs[j] = i}) = 1

\* the positions of the vertical markers a call drew, in drawing order
MarkersDrawn(calls) ==
    LET lines == SelectSeq(calls, LAMBDA c : c.f = "axvline")
    IN  [i \in DOMAIN lines |-> lines[i].x]

\* the first index of every layer, in insertion order: 0, 8, 72, ..., 96
LayerStarts == [k \in DOMAIN LayerRanges |-> FInt(LayerRanges[k][2])]

\* C11: RINGS_LAYERS partitions 0..N_RINGS-1 into the seven contiguous ranges
\* PS, EM1, EM2, EM3, HAD1, HAD2, HAD3 in insertion order, and a call of
\* plot_rings_profile or plot_all_rings that asks for the layer labels draws
\* exactly one vertical marker per layer, at 0, 8, 72, 80, 88, 92, 96 in
\* that order.
C11_OneMarkerPerLayerInOrder ==
    /\ LayersPartitionRings
    /\ (op \in {"plot_rings_profile", "plot_all_rings"}
            /\ args.add_rings_labels) =>
        /\ ret.raised = None
        /\ MarkersDrawn(ret.calls) = LayerStarts
        /\ \A i \in 1..(Len(LayerStarts) - 1) :
               LayerStarts[i][1] < LayerStarts[i + 1][1]

\* C11 for the calls that return: the same, and nothing is said of a call
\* that raises before it draws.
C11_MarkersOfReturningCalls ==
    /\ LayersPartitionRings
    /\ (op \in {"plot_rings_profile", "plot_all_rings"}
            /\ ret.raised = None) =>
        MarkersDrawn(ret.calls) =
            IF args.add_rings_labels THEN LayerStarts ELSE << >>

====
